---- MODULE Spec2Model ----
(***************************************************************************)
(* A model of myls: the sort engine (sortEntries), the git status overlay  *)
(* (gitStatusesForDir and its cache, gitRoot, attachGitToFiles and         *)
(* attachGitToDir), the grid of printShort and the per-directory fan-out   *)
(* of main.  Strings are sequences of byte values, so that case folding,   *)
(* comparison, extension and path arithmetic are computed, not assumed.    *)
(***************************************************************************)
EXTENDS Integers, Sequences, FiniteSets, TLC

VARIABLES
    opt,        \* the active options (opt.sort, opt.reverse, opt.dirsFirst, ...)
    sIn,        \* sortEntries: the slice as passed in
    sNamed,     \* sortEntries: the slice after the name pass (slices.SortFunc)
    sOut,       \* sortEntries: the slice when sortEntries returns
    sPc,        \* sortEntries: "idle" (not yet called) or "done" (returned)
    gRoot,      \* status parse: the repository root the query ran in
    gOut,       \* status parse: the NUL-delimited output of the query
    gIdx,       \* status parse: how many records the loop has consumed
    gStats,     \* status parse: the map stats built so far
    gSeen,      \* status parse: the records the loop has consumed, in order
    args,       \* main: the command-line arguments after the flags
    files,      \* main: the file entries collectEntries returned
    dirs,       \* main: the directory entries, sorted before the fan-out
    pc,         \* main: "off", "start", "wait", "print", "done" or "exit1"
    tpc,        \* per task: its position in the closure passed to wg.Go
    tents,      \* per task: its local slice ents
    troot,      \* per task: root in gitStatusesForDir
    tstats,     \* per task: the map gitStatusesForDir returns to it
    dirEntries, \* main: the result slots, one per directory
    printed,    \* main: the directory sections printed so far
    errs,       \* the tasks whose readDir error was shown on stderr
    gitRepos,   \* the cache, repository root -> status map or nil
    gitReposMu, \* the mutex of the cache: 0 when free, else the holding task
    gitRuns,    \* per repository root: how often "git status" was executed
    pEnts,      \* printShort: the slice ents as passed in
    pWidth,     \* printShort: opt.termWidth
    pOut,       \* printShort: the lines printed so far, each a list of cells
    pPc,        \* printShort: "idle", "lines", "grid" or "done"
    rDir,       \* gitRoot: the argument dir
    rMarked,    \* gitRoot: the directories in which ".git" exists
    rRoot,      \* gitRoot: the local variable root
    rPc         \* gitRoot: "idle", "walk", "found" or "none"

sortVars == <<sIn, sNamed, sOut, sPc>>
parseVars == <<gRoot, gOut, gIdx, gStats, gSeen>>
mainVars == <<args, files, dirs, pc, tpc, tents, troot, tstats, dirEntries,
              printed, errs, gitRepos, gitReposMu, gitRuns>>
printVars == <<pEnts, pWidth, pOut, pPc>>
rootVars == <<rDir, rMarked, rRoot, rPc>>
vars == <<opt, sortVars, parseVars, mainVars, printVars, rootVars>>

----------------------------------------------------------------------------
(* Strings *)

\* strings.ToLower on one ASCII byte.
LowerByte(c) == IF c >= 65 /\ c <= 90 THEN c + 32 ELSE c

\* strings.ToLower.
ToLower(s) == [i \in 1..Len(s) |-> LowerByte(s[i])]

\* strings.Compare: bytewise lexicographic, -1, 0 or +1.
RECURSIVE Compare(_, _)
Compare(a, b) ==
    IF a = <<>> /\ b = <<>> THEN 0
    ELSE IF a = <<>> THEN -1
    ELSE IF b = <<>> THEN 1
    ELSE IF Head(a) < Head(b) THEN -1
    ELSE IF Head(a) > Head(b) THEN 1
    ELSE Compare(Tail(a), Tail(b))

\* cmp.Compare on integers (sizes, modification times).
CmpInt(x, y) == IF x < y THEN -1 ELSE IF x > y THEN 1 ELSE 0

Slash == 47
Dot == 46
Space == 32

\* filepath.Ext: the suffix from the last dot of the last path element.
RECURSIVE ExtFrom(_, _)
ExtFrom(s, i) ==
    IF i < 1 \/ s[i] = Slash THEN <<>>
    ELSE IF s[i] = Dot THEN SubSeq(s, i, Len(s))
    ELSE ExtFrom(s, i - 1)

Ext(s) == ExtFrom(s, Len(s))

----------------------------------------------------------------------------
(* Sort engine: sortEntries *)

SortKeys == {"name", "extension", "size", "mtime", "git"}

isDirMutNoFollow(e) == e.kind = "dir"

\* isDir: a directory, or a symlink that os.Stat resolves to a directory.
isDir(e) == e.kind = "dir" \/ e.kind = "linkdir"

\* The comparison function of one pass of sortEntries, for a before b.
CmpForward(pass, a, b) ==
    CASE pass = "name"      -> Compare(ToLower(a.name), ToLower(b.name))
      [] pass = "extension" -> Compare(ToLower(Ext(a.name)), ToLower(Ext(b.name)))
      [] pass = "size"      -> CmpInt(a.size, b.size)
      [] pass = "mtime"     -> CmpInt(a.mtime, b.mtime)
      [] pass = "git"       -> Compare(ToLower(a.gitStatus), ToLower(b.gitStatus))

\* Under opt.reverse every key pass swaps its arguments.
CmpPass(pass, rev, a, b) ==
    IF rev THEN CmpForward(pass, b, a) ELSE CmpForward(pass, a, b)

\* The dirsFirst pass ignores opt.reverse.
CmpDirs(a, b) ==
    IF isDir(a) = isDir(b) THEN 0 ELSE IF isDir(a) THEN -1 ELSE 1

\* One comparison, by pass name; "dirs" is the grouping pass.
Cmp(pass, rev, a, b) ==
    IF pass = "dirs" THEN CmpDirs(a, b) ELSE CmpPass(pass, rev, a, b)

\* Stable insertion: e goes after every element that is not greater.
InsertStable(sorted, e, pass, rev) ==
    LET before == {i \in 1..Len(sorted) : Cmp(pass, rev, sorted[i], e) <= 0}
        k == IF before = {} THEN 0
             ELSE CHOOSE i \in before : \A j \in before : j <= i
    IN SubSeq(sorted, 1, k) \o <<e>> \o SubSeq(sorted, k + 1, Len(sorted))

\* slices.SortStableFunc: the one stable arrangement.
RECURSIVE SortStableFrom(_, _, _, _)
SortStableFrom(done, rest, pass, rev) ==
    IF rest = <<>> THEN done
    ELSE SortStableFrom(InsertStable(done, Head(rest), pass, rev),
                        Tail(rest), pass, rev)

SortStableFunc(s, pass, rev) == SortStableFrom(<<>>, s, pass, rev)

\* slices.SortFunc gives no stability guarantee: every sorted arrangement
\* of the slice is a possible result.  An arrangement starts with any
\* element that none is less than, and goes on with an arrangement of the
\* others.
RECURSIVE SortFunc(_, _, _)
SortFunc(s, pass, rev) ==
    IF s = <<>> THEN {<<>>}
    ELSE LET least == {i \in 1..Len(s) :
                        \A j \in 1..Len(s) : Cmp(pass, rev, s[i], s[j]) <= 0}
         IN UNION {{<<s[i]>> \o r :
                      r \in SortFunc(SubSeq(s, 1, i - 1) \o SubSeq(s, i + 1, Len(s)),
                                     pass, rev)} : i \in least}

NamePassMutForward(ents, rev) == SortFunc(ents, "name", FALSE)

\* sortEntries, first pass: always by name.
NamePass(ents, rev) == SortFunc(ents, "name", rev)

SecondaryPassMutNoReverse(named, key, rev) ==
    IF key = "name" THEN named ELSE SortStableFunc(named, key, FALSE)

\* sortEntries, the switch on opt.sort.
SecondaryPass(named, key, rev) ==
    IF key = "name" THEN named ELSE SortStableFunc(named, key, rev)

DirsFirstPassMutUnstable(s, dirsFirst) ==
    IF dirsFirst
    THEN LET g == SortStableFunc(s, "dirs", FALSE)
             d == Cardinality({i \in 1..Len(g) : isDir(g[i])})
         IN [i \in 1..Len(g) |-> IF i <= d THEN g[i] ELSE g[Len(g) + d + 1 - i]]
    ELSE s

\* sortEntries, the trailing grouping pass.
DirsFirstPass(s, dirsFirst) ==
    IF dirsFirst THEN SortStableFunc(s, "dirs", FALSE) ELSE s

\* sortEntries after its name pass produced named.
SortEntriesFrom(named, o) ==
    DirsFirstPass(SecondaryPass(named, o.sort, o.reverse), o.dirsFirst)

\* sortEntries: every slice it can leave behind.
SortEntries(ents, o) ==
    {SortEntriesFrom(named, o) : named \in NamePass(ents, o.reverse)}

----------------------------------------------------------------------------
(* Paths: path/filepath on a Unix build *)

Separator == 47

\* The non-empty runs between separators.
RECURSIVE SplitPath(_, _, _)
SplitPath(s, cur, acc) ==
    IF s = <<>> THEN (IF cur = <<>> THEN acc ELSE Append(acc, cur))
    ELSE IF Head(s) = Separator
         THEN SplitPath(Tail(s), <<>>, IF cur = <<>> THEN acc ELSE Append(acc, cur))
         ELSE SplitPath(Tail(s), Append(cur, Head(s)), acc)

\* Clean's rules for "." and "..", on the elements of a rooted path.
RECURSIVE ResolveDots(_, _)
ResolveDots(elems, stack) ==
    IF elems = <<>> THEN stack
    ELSE IF Head(elems) = <<Dot>> THEN ResolveDots(Tail(elems), stack)
    ELSE IF Head(elems) = <<Dot, Dot>>
         THEN ResolveDots(Tail(elems),
                          IF stack = <<>> THEN stack
                          ELSE SubSeq(stack, 1, Len(stack) - 1))
         ELSE ResolveDots(Tail(elems), Append(stack, Head(elems)))

RECURSIVE JoinElems(_)
JoinElems(elems) ==
    IF elems = <<>> THEN <<>>
    ELSE <<Separator>> \o Head(elems) \o JoinElems(Tail(elems))

\* filepath.Clean of a rooted path.
Clean(p) ==
    LET elems == ResolveDots(SplitPath(p, <<>>, <<>>), <<>>)
    IN IF elems = <<>> THEN <<Separator>> ELSE JoinElems(elems)

\* filepath.Join(root, rel) with a rooted first element.
Join(root, rel) == Clean(root \o <<Separator>> \o rel)

\* filepath.Dir: drop the last element, then Clean.
Dir(p) ==
    LET seps == {i \in 1..Len(p) : p[i] = Separator}
        last == CHOOSE i \in seps : \A j \in seps : j <= i
    IN Clean(SubSeq(p, 1, last))

\* filepath.FromSlash.
FromSlash(s) == [i \in 1..Len(s) |-> IF s[i] = Slash THEN Separator ELSE s[i]]

----------------------------------------------------------------------------
(* Status overlay: parsing the query output into a status map *)

Nul == 0

\* bytes.SplitSeq(out, []byte{0}): the records between NUL bytes.
RECURSIVE SplitNul(_, _, _)
SplitNul(s, cur, acc) ==
    IF s = <<>> THEN Append(acc, cur)
    ELSE IF Head(s) = Nul THEN SplitNul(Tail(s), <<>>, Append(acc, cur))
    ELSE SplitNul(Tail(s), Append(cur, Head(s)), acc)

Records(out) == SplitNul(out, <<>>, <<>>)

\* gitPriority ("!!" ignored, "??" untracked).
gitPriority(signs) ==
    IF signs = <<33, 33>> THEN 1
    ELSE IF signs = <<63, 63>> THEN 2
    ELSE 3

\* stats[p] = signs.
Store(stats, p, signs) ==
    [q \in DOMAIN stats \cup {p} |-> IF q = p THEN signs ELSE stats[q]]

MergeAtMutOverwrite(stats, p, signs) == Store(stats, p, signs)

MergeAtMutLastWins(stats, p, signs) ==
    IF p \notin DOMAIN stats \/ gitPriority(stats[p]) <= gitPriority(signs)
    THEN Store(stats, p, signs)
    ELSE stats

\* if prev, ok := stats[p]; !ok || priority(prev) < priority(signs)
MergeAt(stats, p, signs) ==
    IF p \notin DOMAIN stats \/ gitPriority(stats[p]) < gitPriority(signs)
    THEN Store(stats, p, signs)
    ELSE stats

RECURSIVE PropagateMutPastRoot(_, _, _, _)
PropagateMutPastRoot(stats, dirPath, root, signs) ==
    LET merged == MergeAt(stats, dirPath, signs)
    IN IF Dir(dirPath) = dirPath THEN merged
       ELSE PropagateMutPastRoot(merged, Dir(dirPath), root, signs)

PropagateMutOneLevel(stats, dirPath, root, signs) ==
    IF Len(dirPath) >= Len(root) THEN MergeAt(stats, dirPath, signs) ELSE stats

\* The loop "for len(dirPath) >= len(root)" of gitStatusesForDir.
RECURSIVE Propagate(_, _, _, _)
Propagate(stats, dirPath, root, signs) ==
    IF Len(dirPath) >= Len(root)
    THEN LET merged == MergeAt(stats, dirPath, signs)
         IN IF dirPath = root THEN merged
            ELSE IF Dir(dirPath) = dirPath THEN merged
            ELSE Propagate(merged, Dir(dirPath), root, signs)
    ELSE stats

\* The skip test of the record loop.
Malformed(rec) == Len(rec) < 4 \/ rec[3] # Space

RecSigns(rec) == SubSeq(rec, 1, 2)

RecFull(root, rec) == Join(root, FromSlash(SubSeq(rec, 4, Len(rec))))

\* One iteration of the record loop.
ProcessRecord(stats, root, rec) ==
    IF Malformed(rec) THEN stats
    ELSE LET signs == RecSigns(rec)
             full == RecFull(root, rec)
         IN Propagate(MergeAt(stats, full, signs), Dir(full), root, signs)

RECURSIVE ParseFrom(_, _, _)
ParseFrom(stats, root, recs) ==
    IF recs = <<>> THEN stats
    ELSE ParseFrom(ProcessRecord(stats, root, Head(recs)), root, Tail(recs))

\* The map gitStatusesForDir builds from a successful query.
BuildStats(root, out) == ParseFrom(<<>>, root, Records(out))

----------------------------------------------------------------------------
(* Options, and the resting state of each part *)

Options ==
    [sort : SortKeys, reverse : BOOLEAN, dirsFirst : BOOLEAN,
     all : BOOLEAN, long : BOOLEAN, git : BOOLEAN]

SortOptions == {o \in Options : ~o.all /\ ~o.long /\ ~o.git}

DefaultOptions ==
    [sort |-> "name", reverse |-> FALSE, dirsFirst |-> FALSE,
     all |-> FALSE, long |-> FALSE, git |-> FALSE]

MainIdle ==
    /\ args = <<>>
    /\ files = <<>>
    /\ dirs = <<>>
    /\ pc = "off"
    /\ tpc = <<>>
    /\ tents = <<>>
    /\ troot = <<>>
    /\ tstats = <<>>
    /\ dirEntries = <<>>
    /\ printed = <<>>
    /\ errs = {}
    /\ gitRepos = <<>>
    /\ gitReposMu = 0
    /\ gitRuns = <<>>

ParseIdle ==
    /\ gRoot = <<>>
    /\ gOut = <<>>
    /\ gIdx = 0
    /\ gStats = <<>>
    /\ gSeen = <<>>

SortIdle ==
    /\ sIn = <<>>
    /\ sNamed = <<>>
    /\ sOut = <<>>
    /\ sPc = "idle"

PrintIdle ==
    /\ pEnts = <<>>
    /\ pWidth = 0
    /\ pOut = <<>>
    /\ pPc = "idle"

RootIdle ==
    /\ rDir = <<>>
    /\ rMarked = {}
    /\ rRoot = <<>>
    /\ rPc = "idle"

----------------------------------------------------------------------------
(* Status overlay: parse inputs *)

MaxRecs == 3

\* Repository roots: "/r" and the filesystem root "/".
ParseRoots == { <<47, 114>>, <<47>> }

\* Records of git status --porcelain=v1 -z --ignored: "?? a", "!! a/b",
\* " M a/b", "!! a/", "M  c/d/e", "?? c/d/", "R  f" and the original paths
\* "g" and "ab c" that follow a rename.
RecordPool ==
    { <<63, 63, 32, 97>>,
      <<33, 33, 32, 97, 47, 98>>,
      <<32, 77, 32, 97, 47, 98>>,
      <<33, 33, 32, 97, 47>>,
      <<77, 32, 32, 99, 47, 100, 47, 101>>,
      <<63, 63, 32, 99, 47, 100, 47>>,
      <<82, 32, 32, 102>>,
      <<103>>,
      <<97, 98, 32, 99>> }

\* Every record of the output is followed by a NUL.
RECURSIVE Terminated(_)
Terminated(recs) ==
    IF recs = <<>> THEN <<>>
    ELSE Head(recs) \o <<Nul>> \o Terminated(Tail(recs))

\* The original paths of the pool: "g" and "ab c".
OrigPathPool == { <<103>>, <<97, 98, 32, 99>> }

\* The rename entries of the pool: "R  f".
RenamePool == { <<82, 32, 32, 102>> }

\* With -z git prints the original path of a rename as the record after the
\* rename entry, and nowhere else.
GitLike(recs) ==
    \A k \in 1..Len(recs) :
        /\ recs[k] \in OrigPathPool <=> (k > 1 /\ recs[k - 1] \in RenamePool)
        /\ recs[k] \in RenamePool => k < Len(recs)

ParseOutputs ==
    {Terminated(recs) :
        recs \in {s \in UNION {[1..n -> RecordPool] : n \in 0..MaxRecs} : GitLike(s)}}

ParseInit ==
    /\ opt = DefaultOptions
    /\ SortIdle
    /\ MainIdle
    /\ PrintIdle
    /\ RootIdle
    /\ gRoot \in ParseRoots
    /\ gOut \in ParseOutputs
    /\ gIdx = 0
    /\ gStats = <<>>
    /\ gSeen = <<>>

\* One iteration of "for rec := range bytes.SplitSeq(out, []byte{0})".
ParseRecord ==
    /\ gRoot # <<>>
    /\ gIdx < Len(Records(gOut))
    /\ LET rec == Records(gOut)[gIdx + 1]
       IN /\ gStats' = ProcessRecord(gStats, gRoot, rec)
          /\ gSeen' = Append(gSeen, rec)
    /\ gIdx' = gIdx + 1
    /\ UNCHANGED <<opt, sortVars, gRoot, gOut, mainVars, printVars, rootVars>>

ParseNext == ParseRecord

ParseSpec == ParseInit /\ [][ParseNext]_vars

----------------------------------------------------------------------------
(* Status overlay: properties of the parse *)

\* The rank of a code: ignored 1, untracked 2, anything else 3.
Rank(code) ==
    CASE code = <<33, 33>> -> 1
      [] code = <<63, 63>> -> 2
      [] OTHER -> 3

WellFormed(rec) == Len(rec) >= 4 /\ rec[3] = 32

\* The records consumed so far that are well-formed.
Consumed == {k \in 1..Len(gSeen) : WellFormed(gSeen[k])}

CodeOf(k) == SubSeq(gSeen[k], 1, 2)

\* The absolute path of record k: the root, a slash, and the relative path
\* without a trailing slash.
PathOf(k) ==
    LET rec == gSeen[k]
        rel == SubSeq(rec, 4, Len(rec))
        bare == IF rel[Len(rel)] = 47 THEN SubSeq(rel, 1, Len(rel) - 1) ELSE rel
    IN (IF gRoot = <<47>> THEN <<>> ELSE gRoot) \o <<47>> \o bare

\* p is q or a directory above q.
AtOrAbove(p, q) ==
    \/ p = q
    \/ p = <<47>>
    \/ /\ Len(p) < Len(q)
       /\ SubSeq(q, 1, Len(p)) = p
       /\ q[Len(p) + 1] = 47

\* The consumed records that map to p, directly or by propagation.
MapsTo(p) ==
    {k \in Consumed : AtOrAbove(gRoot, p) /\ AtOrAbove(p, PathOf(k))}

SetMax(S) == CHOOSE x \in S : \A y \in S : y <= x

CandidatePaths ==
    DOMAIN gStats \cup
    UNION {{SubSeq(PathOf(k), 1, n) : n \in 1..Len(PathOf(k))} : k \in Consumed}

\* C9: after any sequence of records, every path holds a code of the highest
\* rank among the records that map to it directly or from a descendant, and
\* a path no record maps to holds none.
C9_MaxRank ==
    \A p \in CandidatePaths :
        IF MapsTo(p) = {}
        THEN p \notin DOMAIN gStats
        ELSE /\ p \in DOMAIN gStats
             /\ Rank(gStats[p]) = SetMax({Rank(CodeOf(k)) : k \in MapsTo(p)})

\* C9 witness: under /r, " M a/b" was followed by "!! a/b" and "?? a"; a/b
\* and a both still hold " M".
C9_Witness ==
    /\ gRoot = <<47, 114>>
    /\ gIdx = 3
    /\ gSeen[1] = <<32, 77, 32, 97, 47, 98>>
    /\ gSeen[2] = <<33, 33, 32, 97, 47, 98>>
    /\ gSeen[3] = <<63, 63, 32, 97>>
    /\ gStats[<<47, 114, 47, 97, 47, 98>>] = <<32, 77>>
    /\ gStats[<<47, 114, 47, 97>>] = <<32, 77>>

\* C10: for every record with path P, each directory from parent(P) up to
\* and including the root holds a code of rank at least that of P's code.
C10_Ancestors ==
    \A k \in Consumed :
        /\ PathOf(k) \in DOMAIN gStats
        /\ \A p \in CandidatePaths :
            (p # PathOf(k) /\ MapsTo(p) # {} /\ AtOrAbove(p, PathOf(k))) =>
                /\ p \in DOMAIN gStats
                /\ Rank(gStats[p]) >= Rank(gStats[PathOf(k)])
        /\ gRoot \in DOMAIN gStats
        /\ Rank(gStats[gRoot]) >= Rank(gStats[PathOf(k)])

\* C10 witness: under /r, "?? c/d/" then "M  c/d/e": c/d/e, c/d, c and the
\* root all hold "M ".
C10_Witness ==
    /\ gRoot = <<47, 114>>
    /\ gIdx = 2
    /\ gSeen[1] = <<63, 63, 32, 99, 47, 100, 47>>
    /\ gSeen[2] = <<77, 32, 32, 99, 47, 100, 47, 101>>
    /\ gStats[<<47, 114, 47, 99, 47, 100, 47, 101>>] = <<77, 32>>
    /\ gStats[<<47, 114, 47, 99, 47, 100>>] = <<77, 32>>
    /\ gStats[<<47, 114, 47, 99>>] = <<77, 32>>
    /\ gStats[<<47, 114>>] = <<77, 32>>

----------------------------------------------------------------------------
(* Sort engine: inputs *)

MaxEnts == 3

\* An entry: name, path, what info (os.FileInfo) says, and gitStatus.
Entry(n, k, sz, mt, g) ==
    [name |-> n, path |-> <<47, 119, 47>> \o n, kind |-> k, size |-> sz,
     mtime |-> mt, gitStatus |-> g]

\* Directory entries as readDir and collectEntries build them:
\* "a", "A", "b", "c", "B.x", "d.X".
SortPool ==
    { Entry(<<97>>,         "file",    10, 1, <<45, 45>>),
      Entry(<<65>>,         "dir",     10, 1, <<45, 45>>),
      Entry(<<98>>,         "linkdir",  5, 2, <<63, 63>>),
      Entry(<<99>>,         "file",    10, 2, <<45, 77>>),
      Entry(<<66, 46, 120>>, "file",     5, 1, <<33, 33>>),
      Entry(<<100, 46, 88>>, "dir",      7, 3, <<45, 109>>) }

Injective(s) == \A i \in 1..Len(s) : \A j \in 1..Len(s) : s[i] = s[j] => i = j

SortInputs ==
    {s \in UNION {[1..n -> SortPool] : n \in 0..MaxEnts} : Injective(s)}

SortInit ==
    /\ opt \in SortOptions
    /\ sIn \in SortInputs
    /\ sNamed = <<>>
    /\ sOut = <<>>
    /\ sPc = "idle"
    /\ ParseIdle
    /\ MainIdle
    /\ PrintIdle
    /\ RootIdle

\* One call of sortEntries(sIn).
DoSortEntries ==
    /\ sPc = "idle"
    /\ \E named \in NamePass(sIn, opt.reverse) :
        /\ sNamed' = named
        /\ sOut' = SortEntriesFrom(named, opt)
    /\ sPc' = "done"
    /\ UNCHANGED <<opt, sIn, parseVars, mainVars, printVars, rootVars>>

SortNext == DoSortEntries

SortSpec == SortInit /\ [][SortNext]_vars

----------------------------------------------------------------------------
(* Sort engine: properties *)

\* The index of entry e in slice s (slices here hold distinct entries).
Pos(s, e) == CHOOSE i \in 1..Len(s) : s[i] = e

DirLike(e) == e.kind \in {"dir", "linkdir"}

\* The secondary key of an entry, and its order, written out per key.
KeyLeq(key, a, b) ==
    CASE key = "extension" -> Compare(ToLower(Ext(a.name)), ToLower(Ext(b.name))) <= 0
      [] key = "size"      -> a.size <= b.size
      [] key = "mtime"     -> a.mtime <= b.mtime
      [] key = "git"       -> Compare(ToLower(a.gitStatus), ToLower(b.gitStatus)) <= 0
      [] key = "name"      -> TRUE

KeyEq(key, a, b) == KeyLeq(key, a, b) /\ KeyLeq(key, b, a)

FoldLeq(a, b) == Compare(ToLower(a.name), ToLower(b.name)) <= 0

FoldEq(a, b) == ToLower(a.name) = ToLower(b.name)

\* C5: sortEntries is stable: two entries with equal case-folded names, and
\* equal secondary keys when one is active, keep their input order.  (Stated
\* in the reading most favourable to the claim: when dirsFirst is set the
\* pair is also required to fall in the same group.)
C5_Stable ==
    sPc = "done" =>
        \A i \in 1..Len(sIn) : \A j \in 1..Len(sIn) :
            ( /\ i < j
              /\ FoldEq(sIn[i], sIn[j])
              /\ KeyEq(opt.sort, sIn[i], sIn[j])
              /\ (opt.dirsFirst => DirLike(sIn[i]) = DirLike(sIn[j])) )
            => Pos(sOut, sIn[i]) < Pos(sOut, sIn[j])

\* C6: with dirsFirst set, no non-directory entry precedes a directory-like
\* entry (a directory or a symlink resolving to one), reverse or not.
C6_DirsFirst ==
    (sPc = "done" /\ opt.dirsFirst) =>
        \A i \in 1..Len(sOut) : \A j \in 1..Len(sOut) :
            (i < j /\ DirLike(sOut[j])) => DirLike(sOut[i])

\* C6 witness: reverse and a secondary key are active, and a symlinked
\* directory and a real one both stand above a plain file.
C6_Witness ==
    /\ sPc = "done" /\ opt.dirsFirst /\ opt.reverse /\ opt.sort = "size"
    /\ Len(sOut) = 3
    /\ sOut[1].kind = "dir" /\ sOut[2].kind = "linkdir" /\ sOut[3].kind = "file"

\* C7: two entries of the same group (both directory-like, or both not) stand
\* in the same relative order with dirsFirst enabled as with it disabled.
C7_DirsFirstInvariance ==
    sPc = "done" =>
        LET other == SortEntriesFrom(sNamed, [opt EXCEPT !.dirsFirst = ~opt.dirsFirst])
        IN \A i \in 1..Len(sIn) : \A j \in 1..Len(sIn) :
            (DirLike(sIn[i]) = DirLike(sIn[j]) /\ i # j) =>
                ( (Pos(sOut, sIn[i]) < Pos(sOut, sIn[j]))
                  <=> (Pos(other, sIn[i]) < Pos(other, sIn[j])) )

\* C7 witness: dirsFirst moved a directory above files, and two files kept
\* their order.
C7_Witness ==
    /\ sPc = "done" /\ opt.dirsFirst /\ Len(sOut) = 3
    /\ sOut # SortEntriesFrom(sNamed, [opt EXCEPT !.dirsFirst = FALSE])
    /\ ~DirLike(sOut[2]) /\ ~DirLike(sOut[3])

\* C8: sorted by extension, size, time or status (dirsFirst off), the slice is
\* ordered by that key in the chosen direction, and entries equal under the
\* key stand in the order of the name pass: by case-folded name in the same
\* direction.
C8_SecondaryOrder ==
    (sPc = "done" /\ opt.sort # "name" /\ ~opt.dirsFirst) =>
        \A i \in 1..Len(sOut) : \A j \in 1..Len(sOut) :
            i < j =>
                LET a == IF opt.reverse THEN sOut[j] ELSE sOut[i]
                    b == IF opt.reverse THEN sOut[i] ELSE sOut[j]
                IN /\ KeyLeq(opt.sort, a, b)
                   /\ KeyEq(opt.sort, a, b) =>
                        /\ FoldLeq(a, b)
                        /\ Pos(sNamed, sOut[i]) < Pos(sNamed, sOut[j])

\* C8 witness: sizes 10, 10, 5 under names c, a, b, by size descending,
\* come out as c, a, b.
C8_Witness ==
    /\ sPc = "done" /\ opt.sort = "size" /\ opt.reverse /\ ~opt.dirsFirst
    /\ Len(sIn) = 3
    /\ sIn[1].name = <<99>> /\ sIn[2].name = <<97>> /\ sIn[3].name = <<98>>
    /\ sOut[1].name = <<99>> /\ sOut[2].name = <<97>> /\ sOut[3].name = <<98>>
    /\ sOut[1].size = 10 /\ sOut[2].size = 10 /\ sOut[3].size = 5

----------------------------------------------------------------------------
(* The filesystem and the repository the run sees *)

\* Existing paths with what Lstat reports: "/", "/r", "/r/a", "/r/B", "/n",
\* "/r/a/y", "/r/a/.h", "/r/a/X", "/r/B/k", "/n/m" (a symlink to a
\* directory) and "/n/c".
Info(k, sz, mt) == [kind |-> k, size |-> sz, mtime |-> mt]

Fs ==
    (<<47>> :> Info("dir", 4, 1))
    @@ (<<47, 114>> :> Info("dir", 4, 2))
    @@ (<<47, 114, 47, 97>> :> Info("dir", 4, 3))
    @@ (<<47, 114, 47, 66>> :> Info("dir", 6, 1))
    @@ (<<47, 110>> :> Info("dir", 5, 2))
    @@ (<<47, 114, 47, 97, 47, 121>> :> Info("file", 10, 1))
    @@ (<<47, 114, 47, 97, 47, 46, 104>> :> Info("file", 5, 2))
    @@ (<<47, 114, 47, 97, 47, 88>> :> Info("dir", 4, 3))
    @@ (<<47, 114, 47, 66, 47, 107>> :> Info("file", 7, 1))
    @@ (<<47, 110, 47, 109>> :> Info("linkdir", 3, 2))
    @@ (<<47, 110, 47, 99>> :> Info("file", 10, 1))

\* The names f.ReadDir(-1) yields, in directory order.
Listing ==
    (<<47, 114, 47, 97>> :> << <<121>>, <<46, 104>>, <<88>> >>)
    @@ (<<47, 114, 47, 66>> :> << <<107>> >>)
    @@ (<<47, 110>> :> << <<109>>, <<99>> >>)

\* The directories that hold a ".git": "/r".
GitDirs == { <<47, 114>> }

\* What "git -C /r status --porcelain=v1 -z --ignored" prints:
\* "?? a/y", " M a/.h"; nothing below "/r/B" has a status.
GitOutput(root) ==
    <<63, 63, 32, 97, 47, 121, 0, 32, 77, 32, 97, 47, 46, 104, 0>>

\* The working directory of the process: "/n".
Cwd == <<47, 110>>

\* filepath.Abs.
Abs(p) == IF p[1] = Separator THEN Clean(p) ELSE Join(Cwd, p)

----------------------------------------------------------------------------
(* main: collectEntries, the per-directory tasks, the join, the sections *)

MaxArgs == 2

\* The arguments a run may be given: the directories "/r/a", "/r/B", "/n",
\* the files "/r/a/y", "/r/B/k", and "/q", which does not exist.
ArgPool ==
    { <<47, 114, 47, 97>>, <<47, 114, 47, 66>>, <<47, 110>>,
      <<47, 114, 47, 97, 47, 121>>, <<47, 114, 47, 66, 47, 107>>, <<47, 113>> }

ArgLists ==
    {s \in UNION {[1..n -> ArgPool] : n \in 0..MaxArgs} : Injective(s)}

\* An entry as collectEntries, readDir and selfAndParent build it.
MkEntry(n, full) ==
    [name |-> n, path |-> full, kind |-> Fs[full].kind, size |-> Fs[full].size,
     mtime |-> Fs[full].mtime, gitStatus |-> <<>>]

\* collectEntries: no arguments mean "."; a pattern is taken as a literal
\* path; a path Lstat cannot find is skipped.
Patterns(a) == IF a = <<>> THEN << <<Dot>> >> ELSE a

RECURSIVE Collected(_, _)
Collected(pats, wantDirs) ==
    IF pats = <<>> THEN <<>>
    ELSE LET p == Head(pats)
             rest == Collected(Tail(pats), wantDirs)
         IN IF Abs(p) \notin DOMAIN Fs THEN rest
            ELSE IF (Fs[Abs(p)].kind = "dir") = wantDirs
                 THEN <<MkEntry(p, Abs(p))>> \o rest
                 ELSE rest

\* sortEntries(dirs) in main.
SortDirsMutSkip(d, o) == {d}

SortDirs(d, o) == SortEntries(d, o)

\* readDir.
ReadDir(path) ==
    [i \in 1..Len(Listing[path]) |->
        MkEntry(Listing[path][i], Join(path, Listing[path][i]))]

\* selfAndParent.
selfAndParent(dir) ==
    << MkEntry(<<Dot>>, Join(dir, <<Dot>>)),
       MkEntry(<<Dot, Dot>>, Join(dir, <<Dot, Dot>>)) >>

\* isHidden: the name begins with a dot.
isHidden(e) == Len(e.name) >= 1 /\ e.name[1] = Dot

\* slices.DeleteFunc(ents, isHidden).
RECURSIVE DeleteHidden(_)
DeleteHidden(ents) ==
    IF ents = <<>> THEN <<>>
    ELSE IF isHidden(Head(ents)) THEN DeleteHidden(Tail(ents))
    ELSE <<Head(ents)>> \o DeleteHidden(Tail(ents))

\* gitRoot: the nearest directory at or above dir that holds ".git".
RECURSIVE gitRoot(_)
gitRoot(dir) ==
    IF dir \in GitDirs THEN dir
    ELSE IF Dir(dir) = dir THEN <<>>
    ELSE gitRoot(Dir(dir))

\* The map a successful status query of each repository gives.
RepoStats == [r \in GitDirs |-> BuildStats(r, GitOutput(r))]

\* What gitStatusesForDir returns: nil, or a map.
NilStats == [nil |-> TRUE, map |-> <<>>]

StatsVal(m) == [nil |-> FALSE, map |-> m]

\* strings.ReplaceAll(signs, " ", "-").
Dashed(signs) == [i \in 1..Len(signs) |-> IF signs[i] = Space THEN 45 ELSE signs[i]]

attachGitToDirMutSkipDots(stats, ents) ==
    IF stats.nil THEN ents
    ELSE [i \in 1..Len(ents) |->
            [ents[i] EXCEPT !.gitStatus =
                IF ents[i].name \in { <<Dot>>, <<Dot, Dot>> } THEN @
                ELSE IF ents[i].path \in DOMAIN stats.map
                THEN Dashed(stats.map[ents[i].path])
                ELSE <<45, 45>>]]

\* attachGitToDir, once gitStatusesForDir has returned stats.
attachGitToDir(stats, ents) ==
    IF stats.nil THEN ents
    ELSE [i \in 1..Len(ents) |->
            [ents[i] EXCEPT !.gitStatus =
                IF ents[i].path \in DOMAIN stats.map
                THEN Dashed(stats.map[ents[i].path])
                ELSE <<45, 45>>]]

CacheHitMutNilMisses(cache, root) ==
    root \in DOMAIN cache /\ ~cache[root].nil

\* st, ok := gitRepos[root].
CacheHit(cache, root) == root \in DOMAIN cache

\* gitRepos[root] = st.
CachePut(cache, root, st) ==
    [r \in DOMAIN cache \cup {root} |-> IF r = root THEN st ELSE cache[r]]

\* gitStatusesForDir past the query: the store and the return.
QueryStored(cache, runs, root, res) ==
    [stats |-> res, cache |-> CachePut(cache, root, res),
     runs |-> [runs EXCEPT ![root] = @ + 1]]

\* gitStatusesForDir once root is known: "" returns nil, a cached root
\* returns its entry, any other root is queried (qok: the query succeeds).
StatusesAt(cache, runs, root, qok) ==
    IF root = <<>>
    THEN [stats |-> NilStats, cache |-> cache, runs |-> runs]
    ELSE IF CacheHit(cache, root)
    THEN [stats |-> cache[root], cache |-> cache, runs |-> runs]
    ELSE QueryStored(cache, runs, root,
                     IF qok THEN StatsVal(RepoStats[root])
                     ELSE NilStats)

\* gitStatusesForDir as main calls it through attachGitToFiles, before any
\* task exists.
gitStatusesForDir(cache, runs, dir, qok) ==
    StatusesAt(cache, runs, gitRoot(dir), qok)

\* The directory attachGitToFiles looks up for an entry.
EntryDir(e) == IF e.kind = "dir" THEN e.path ELSE Dir(e.path)

\* The body of the first loop of attachGitToFiles for entry i, once the
\* lookup g of its directory is known: dirCache[dir] = stats; a nil map
\* skips the entry; otherwise showGit is set and a match is written.
AttachEntry(s, i, dir, g) ==
    IF g.stats.nil
    THEN [s EXCEPT !.dirCache = (dir :> g.stats) @@ @,
                   !.cache = g.cache, !.runs = g.runs]
    ELSE [s EXCEPT !.dirCache = (dir :> g.stats) @@ @,
                   !.cache = g.cache, !.runs = g.runs,
                   !.showGit = TRUE,
                   !.ents[i].gitStatus =
                       IF s.ents[i].path \in DOMAIN g.stats.map
                       THEN Dashed(g.stats.map[s.ents[i].path])
                       ELSE @]

\* stats, ok := dirCache[dir]; if !ok { stats = gitStatusesForDir(dir) }.
DirLookup(s, dir, qok) ==
    IF dir \in DOMAIN s.dirCache
    THEN [stats |-> s.dirCache[dir], cache |-> s.cache, runs |-> s.runs]
    ELSE gitStatusesForDir(s.cache, s.runs, dir, qok)

AttachStep(s, i, dir, qok) == AttachEntry(s, i, dir, DirLookup(s, dir, qok))

\* The first loop of attachGitToFiles, from entry i on.
RECURSIVE AttachFilesFrom(_, _, _)
AttachFilesFrom(s, i, qok) ==
    IF i > Len(s.ents) THEN s
    ELSE AttachFilesFrom(AttachStep(s, i, EntryDir(s.ents[i]), qok), i + 1, qok)

PlaceholdersMutNone(ents) == ents

\* The second loop of attachGitToFiles: "--" for every empty status.
Placeholders(ents) ==
    [i \in 1..Len(ents) |->
        [ents[i] EXCEPT !.gitStatus = IF @ = <<>> THEN <<45, 45>> ELSE @]]

\* if !showGit { return }, else the placeholders.
AttachResult(s) ==
    [ents |-> IF s.showGit THEN Placeholders(s.ents) ELSE s.ents,
     cache |-> s.cache, runs |-> s.runs]

\* attachGitToFiles.
attachGitToFiles(ents, cache, runs, qok) ==
    AttachResult(AttachFilesFrom([ents |-> ents, dirCache |-> <<>>,
                                  cache |-> cache, runs |-> runs,
                                  showGit |-> FALSE], 1, qok))

Tasks == 1..Len(dirs)

MutexFreeMutNoWait(mu) == TRUE

\* gitReposMu.Lock() returns only when no task holds the mutex.
MutexFree(mu) == mu = 0

UnlockMutHeld(mu) == mu

\* gitReposMu.Unlock().
Unlock(mu) == 0

AllDoneMutNoWait(t) == TRUE

\* wg.Wait() returns only when every task started by wg.Go has returned.
AllDone(t) == \A i \in DOMAIN t : t[i] = "done"

SlotIndexMutShared(i) == Len(dirs)

SlotIndexMutNext(i) == (i % Len(dirs)) + 1

\* The slot a task writes: dirEntries[i].
SlotIndex(i) == i

SlotsAfterFailureMutAll(slots, i) == [k \in DOMAIN slots |-> <<>>]

\* dirEntries[i] = nil after a failed readDir.
SlotsAfterFailure(slots, i) == [slots EXCEPT ![SlotIndex(i)] = <<>>]

\* The options of a run: statuses are attached only under -l with -git, and
\* nothing else here reads either flag, so a run with one of the two alone
\* goes as a run with neither.
MainOptions == {o \in Options : o.long = o.git}

Init ==
    /\ opt \in MainOptions
    /\ SortIdle
    /\ ParseIdle
    /\ PrintIdle
    /\ RootIdle
    /\ args \in ArgLists
    /\ files = <<>>
    /\ dirs = <<>>
    /\ pc = "start"
    /\ tpc = <<>>
    /\ tents = <<>>
    /\ troot = <<>>
    /\ tstats = <<>>
    /\ dirEntries = <<>>
    /\ printed = <<>>
    /\ errs = {}
    /\ gitRepos = <<>>
    /\ gitReposMu = 0
    /\ gitRuns = [r \in GitDirs |-> 0]

\* main up to the launch of the tasks: collectEntries, os.Exit(1) when
\* nothing was collected, attachGitToFiles, sortEntries and printEntries for
\* the files, sortEntries(dirs), make([][]entry, len(dirs)), wg.Go for every
\* directory.
MainStart ==
    /\ pc = "start"
    /\ LET cf == Collected(Patterns(args), FALSE)
           cd == Collected(Patterns(args), TRUE)
       IN IF cf = <<>> /\ cd = <<>>
          THEN /\ pc' = "exit1"
               /\ UNCHANGED <<files, dirs, tpc, tents, troot, tstats,
                              dirEntries, gitRepos, gitRuns>>
          ELSE \E qok \in BOOLEAN :
                \E a \in {IF opt.long /\ opt.git
                          THEN attachGitToFiles(cf, gitRepos, gitRuns, qok)
                          ELSE [ents |-> cf, cache |-> gitRepos, runs |-> gitRuns]} :
                   /\ files' \in SortEntries(a.ents, opt)
                   /\ gitRepos' = a.cache
                   /\ gitRuns' = a.runs
                   /\ dirs' \in SortDirs(cd, opt)
                   /\ LET n == Len(cd)
                      IN /\ tpc' = [i \in 1..n |-> "read"]
                         /\ tents' = [i \in 1..n |-> <<>>]
                         /\ troot' = [i \in 1..n |-> <<>>]
                         /\ tstats' = [i \in 1..n |-> NilStats]
                         /\ dirEntries' = [i \in 1..n |-> <<>>]
                   /\ pc' = "wait"
    /\ UNCHANGED <<opt, sortVars, parseVars, printVars, rootVars,
                   args, printed, errs, gitReposMu>>

\* The task's readDir, then selfAndParent or the hidden filter, then the
\* start of attachGitToDir: gitRoot(dir).
TaskRead(i) ==
    /\ pc = "wait"
    /\ tpc[i] = "read"
    /\ \E ok \in BOOLEAN :
        IF ok
        THEN LET raw == ReadDir(dirs[i].path)
                 ents == IF opt.all THEN selfAndParent(dirs[i].path) \o raw
                         ELSE DeleteHidden(raw)
                 root == gitRoot(dirs[i].path)
             IN /\ tents' = [tents EXCEPT ![i] = ents]
                /\ troot' = [troot EXCEPT ![i] = root]
                /\ tpc' = [tpc EXCEPT ![i] =
                            IF opt.long /\ opt.git /\ root # <<>>
                            THEN "lock1" ELSE "sort"]
                /\ UNCHANGED <<errs, dirEntries>>
        ELSE /\ errs' = errs \cup {i}
             /\ dirEntries' = SlotsAfterFailure(dirEntries, i)
             /\ tpc' = [tpc EXCEPT ![i] = "done"]
             /\ UNCHANGED <<tents, troot>>
    /\ UNCHANGED <<opt, sortVars, parseVars, printVars, rootVars,
                   args, files, dirs, pc, tstats,
                   printed, gitRepos, gitReposMu, gitRuns>>

\* gitReposMu.Lock() before the cache is read.
TaskLock1(i) ==
    /\ pc = "wait"
    /\ tpc[i] = "lock1"
    /\ MutexFree(gitReposMu)
    /\ gitReposMu' = i
    /\ tpc' = [tpc EXCEPT ![i] = "check"]
    /\ UNCHANGED <<opt, sortVars, parseVars, printVars, rootVars,
                   args, files, dirs, pc, tents,
                   troot, tstats, dirEntries, printed, errs, gitRepos, gitRuns>>

\* if st, ok := gitRepos[root]; ok { Unlock; return st }; Unlock.
TaskCheck(i) ==
    /\ pc = "wait"
    /\ tpc[i] = "check"
    /\ gitReposMu = i
    /\ IF CacheHit(gitRepos, troot[i])
       THEN /\ tstats' = [tstats EXCEPT ![i] = gitRepos[troot[i]]]
            /\ tpc' = [tpc EXCEPT ![i] = "attach"]
       ELSE /\ tstats' = tstats
            /\ tpc' = [tpc EXCEPT ![i] = "query"]
    /\ gitReposMu' = Unlock(gitReposMu)
    /\ UNCHANGED <<opt, sortVars, parseVars, printVars, rootVars,
                   args, files, dirs, pc, tents,
                   troot, dirEntries, printed, errs, gitRepos, gitRuns>>

\* cmd.Output(): the query runs and fails, or its output is parsed.
TaskQuery(i) ==
    /\ pc = "wait"
    /\ tpc[i] = "query"
    /\ gitRuns' = [gitRuns EXCEPT ![troot[i]] = @ + 1]
    /\ \E res \in {NilStats, StatsVal(RepoStats[troot[i]])} :
        tstats' = [tstats EXCEPT ![i] = res]
    /\ tpc' = [tpc EXCEPT ![i] = "lock2"]
    /\ UNCHANGED <<opt, sortVars, parseVars, printVars, rootVars,
                   args, files, dirs, pc, tents,
                   troot, dirEntries, printed, errs, gitRepos, gitReposMu>>

\* gitReposMu.Lock() before the cache is written.
TaskLock2(i) ==
    /\ pc = "wait"
    /\ tpc[i] = "lock2"
    /\ MutexFree(gitReposMu)
    /\ gitReposMu' = i
    /\ tpc' = [tpc EXCEPT ![i] = "store"]
    /\ UNCHANGED <<opt, sortVars, parseVars, printVars, rootVars,
                   args, files, dirs, pc, tents,
                   troot, tstats, dirEntries, printed, errs, gitRepos, gitRuns>>

\* gitRepos[root] = nil, or = stats; Unlock; return.
TaskStore(i) ==
    /\ pc = "wait"
    /\ tpc[i] = "store"
    /\ gitReposMu = i
    /\ gitRepos' = CachePut(gitRepos, troot[i], tstats[i])
    /\ gitReposMu' = Unlock(gitReposMu)
    /\ tpc' = [tpc EXCEPT ![i] = "attach"]
    /\ UNCHANGED <<opt, sortVars, parseVars, printVars, rootVars,
                   args, files, dirs, pc, tents,
                   troot, tstats, dirEntries, printed, errs, gitRuns>>

\* The rest of attachGitToDir: the statuses are written into ents.
TaskAttach(i) ==
    /\ pc = "wait"
    /\ tpc[i] = "attach"
    /\ tents' = [tents EXCEPT ![i] = attachGitToDir(tstats[i], tents[i])]
    /\ tpc' = [tpc EXCEPT ![i] = "sort"]
    /\ UNCHANGED <<opt, sortVars, parseVars, printVars, rootVars,
                   args, files, dirs, pc, troot,
                   tstats, dirEntries, printed, errs, gitRepos, gitReposMu,
                   gitRuns>>

\* sortEntries(ents); dirEntries[i] = ents; and the task ends.
TaskSort(i) ==
    /\ pc = "wait"
    /\ tpc[i] = "sort"
    /\ \E sorted \in SortEntries(tents[i], opt) :
        /\ tents' = [tents EXCEPT ![i] = sorted]
        /\ dirEntries' = [dirEntries EXCEPT ![SlotIndex(i)] = sorted]
    /\ tpc' = [tpc EXCEPT ![i] = "done"]
    /\ UNCHANGED <<opt, sortVars, parseVars, printVars, rootVars,
                   args, files, dirs, pc, troot,
                   tstats, printed, errs, gitRepos, gitReposMu, gitRuns>>

\* wg.Wait() returns once every task has ended.
MainWait ==
    /\ pc = "wait"
    /\ AllDone(tpc)
    /\ pc' = IF Len(dirs) = 0 THEN "done" ELSE "print"
    /\ UNCHANGED <<opt, sortVars, parseVars, printVars, rootVars,
                   args, files, dirs, tpc, tents,
                   troot, tstats, dirEntries, printed, errs, gitRepos,
                   gitReposMu, gitRuns>>

\* One round of "for i, d := range dirs": the header of d and
\* printEntries(dirEntries[i]).
MainPrint ==
    /\ pc = "print"
    /\ LET k == Len(printed) + 1
       IN /\ printed' = Append(printed, [name |-> dirs[k].name, ents |-> dirEntries[k]])
          /\ pc' = IF k = Len(dirs) THEN "done" ELSE "print"
    /\ UNCHANGED <<opt, sortVars, parseVars, printVars, rootVars,
                   args, files, dirs, tpc, tents,
                   troot, tstats, dirEntries, errs, gitRepos, gitReposMu,
                   gitRuns>>

Next ==
    \/ MainStart
    \/ \E i \in Tasks : TaskRead(i)
    \/ \E i \in Tasks : TaskLock1(i)
    \/ \E i \in Tasks : TaskCheck(i)
    \/ \E i \in Tasks : TaskQuery(i)
    \/ \E i \in Tasks : TaskLock2(i)
    \/ \E i \in Tasks : TaskStore(i)
    \/ \E i \in Tasks : TaskAttach(i)
    \/ \E i \in Tasks : TaskSort(i)
    \/ MainWait
    \/ MainPrint

Spec == Init /\ [][Next]_vars

----------------------------------------------------------------------------
(* main: properties *)

Names(s) == [k \in 1..Len(s) |-> s[k].name]

Range(s) == {s[k] : k \in 1..Len(s)}

\* a may stand before b under the options o: by the key in its direction,
\* equal keys by case-folded name in the same direction; with dirsFirst, a
\* directory-like entry before any other.
MayPrecede(o, a, b) ==
    LET x == IF o.reverse THEN b ELSE a
        y == IF o.reverse THEN a ELSE b
    IN IF o.dirsFirst /\ DirLike(a) # DirLike(b) THEN DirLike(a)
       ELSE /\ KeyLeq(o.sort, x, y)
            /\ KeyEq(o.sort, x, y) => FoldLeq(x, y)

InListingOrder(o, s) ==
    \A i \in 1..Len(s) : \A j \in 1..Len(s) : i < j => MayPrecede(o, s[i], s[j])

\* The names a listing of dir must show.
ShownNames(o, dir) ==
    IF o.all THEN Range(Listing[dir]) \cup { <<46>>, <<46, 46>> }
    ELSE {n \in Range(Listing[dir]) : n[1] # 46}

\* C1: the k-th section printed shows the entries of the k-th directory of
\* the list, as the task launched for it produced them, under its header.
C1_SlotIdentity ==
    \A k \in 1..Len(printed) :
        /\ printed[k].name = dirs[k].name
        /\ printed[k].ents = tents[k]
        /\ \A e \in Range(printed[k].ents) :
            e.name \in Range(Listing[dirs[k].path]) \cup { <<46>>, <<46, 46>> }

\* C1 witness: two sections are out, each with its own non-empty listing.
C1_Witness ==
    /\ pc = "done"
    /\ Len(printed) = 2
    /\ printed[1].ents # <<>> /\ printed[2].ents # <<>>
    /\ printed[1].ents # printed[2].ents

C3_FailureIsolated ==
    /\ \A i \in errs : dirEntries[i] = <<>>
    /\ pc = "done" =>
        \A j \in Tasks :
            /\ tpc[j] = "done"
            /\ IF j \in errs THEN printed[j].ents = <<>>
               ELSE /\ Range(Names(printed[j].ents)) = ShownNames(opt, dirs[j].path)
                    /\ Len(printed[j].ents) = Cardinality(ShownNames(opt, dirs[j].path))
                    /\ InListingOrder(opt, printed[j].ents)

\* C3 witness: the first directory could not be read, the second was
\* printed with at least two entries.
C3_Witness ==
    /\ pc = "done"
    /\ errs = {1}
    /\ Len(printed) = 2
    /\ printed[1].ents = <<>>
    /\ Len(printed[2].ents) >= 2

\* C4: the status query runs at most once for every repository root.
C4_AtMostOnce ==
    \A r \in DOMAIN gitRuns : gitRuns[r] <= 1

----------------------------------------------------------------------------
(* Status attachment: properties of a batch *)

\* An entry has a status when its code is neither empty nor the placeholder.
HasCode(e) == e.gitStatus # <<>> /\ e.gitStatus # <<45, 45>>

\* The batch rule: with a status somewhere in the batch no entry is left
\* without a code; with none, no entry carries a code or a placeholder.
BatchRule(b) ==
    IF \E k \in 1..Len(b) : HasCode(b[k])
    THEN \A k \in 1..Len(b) : b[k].gitStatus # <<>>
    ELSE \A k \in 1..Len(b) : b[k].gitStatus = <<>>

\* Task i is past attachGitToDir.
Attached(i) == opt.long /\ opt.git /\ tpc[i] \in {"sort", "done"} /\ i \notin errs

\* C11: after attachGitToFiles or attachGitToDir, a batch in which some entry
\* has a status shows "--" on every entry without one, and a batch in which
\* no entry has a status shows no code at all, the placeholder included.
C11_PlaceholderRule ==
    /\ (pc # "start" /\ opt.long /\ opt.git) => BatchRule(files)
    /\ \A i \in Tasks : Attached(i) => BatchRule(tents[i])

----------------------------------------------------------------------------
(* The exit status *)

\* Every argument failed: no file was collected and every directory that
\* was collected could not be read.
NothingListed == files = <<>> /\ \A i \in Tasks : i \in errs

\* C14: a run in which every argument failed does not return from main (exit
\* status 0); it ends through os.Exit(1).
C14_FailureExit ==
    pc = "done" => ~NothingListed

----------------------------------------------------------------------------
(* The status cache: recorded failures *)

----------------------------------------------------------------------------
(* The join, the result slots, the mutex *)

\* C17: no directory section is printed, and main is not past wg.Wait(),
\* unless every task has returned.
C17_Barrier ==
    (printed # <<>> \/ pc \in {"print", "done"}) =>
        \A i \in Tasks : tpc[i] = "done"

\* C17 witness: the first of two sections is out, with entries; both tasks
\* have returned.
C17_Witness ==
    /\ pc = "print"
    /\ Len(dirs) = 2 /\ Len(printed) = 1
    /\ printed[1].ents # <<>>
    /\ tpc[1] = "done" /\ tpc[2] = "done"

\* C18: a step of task i leaves every result slot but its own as it was,
\* touches no other task's state and nothing of main's; of the state tasks
\* share, only the status cache (with its mutex) is written by them.
C18_OwnSlot ==
    [][ \A i \in Tasks :
            tpc'[i] # tpc[i] =>
                /\ \A k \in Tasks \ {i} :
                      /\ dirEntries'[k] = dirEntries[k]
                      /\ tents'[k] = tents[k]
                      /\ troot'[k] = troot[k]
                      /\ tstats'[k] = tstats[k]
                      /\ tpc'[k] = tpc[k]
                /\ UNCHANGED <<opt, args, files, dirs, pc, printed>>
      ]_vars

\* C18 witness: both tasks of a run have written their slots while main
\* waits, each slot with a listing of its own.
C18_Witness ==
    /\ pc = "wait"
    /\ Len(dirs) = 2
    /\ tpc[1] = "done" /\ tpc[2] = "done"
    /\ dirEntries[1] # <<>> /\ dirEntries[2] # <<>>
    /\ dirEntries[1] # dirEntries[2]

\* Task i is between Lock and Unlock.
InCritical(i) == tpc[i] \in {"check", "store"}

\* C19: a task is between Lock and Unlock exactly when it holds gitReposMu,
\* so at most one task is; the cache is read (the check) and written (the
\* store) only by the holder; the holder is never the task whose query runs.
C19_MutexDiscipline ==
    [][ /\ \A i \in Tasks : InCritical(i) <=> gitReposMu = i
        /\ \A i \in Tasks : \A j \in Tasks : (InCritical(i) /\ InCritical(j)) => i = j
        /\ \A i \in Tasks : tpc[i] = "query" => gitReposMu # i
        /\ \A i \in Tasks :
              (tpc[i] = "check" /\ tpc'[i] # "check") => gitReposMu = i
        /\ gitRepos' # gitRepos =>
              \/ pc = "start"
              \/ \E i \in Tasks : gitReposMu = i /\ tpc[i] = "store" /\ tpc'[i] # "store"
      ]_vars

\* C19 witness: one task holds the mutex for its store while another
\* task's query is running.
C19_Witness ==
    \E i \in Tasks : \E j \in Tasks :
        /\ tpc[i] = "store" /\ gitReposMu = i
        /\ tpc[j] = "query"

\* C20: when the query ran more than once for a root (two tasks missed
\* together) and some task got a map for it, then after the join the cache
\* holds for that root the map of the complete query output, not "absent".
C20_CompleteMapWins ==
    pc \in {"print", "done"} =>
        \A r \in DOMAIN gitRuns :
            (/\ gitRuns[r] >= 2
             /\ \E i \in Tasks : troot[i] = r /\ ~tstats[i].nil)
            => /\ CacheHit(gitRepos, r)
               /\ gitRepos[r] = StatsVal(BuildStats(r, GitOutput(r)))

----------------------------------------------------------------------------
(* printShort: the grid *)

\* tabWidth is the tab stop width in spaces.
tabWidth == 8

Min(a, b) == IF a < b THEN a ELSE b

Max(a, b) == IF a > b THEN a ELSE b

\* classify: "@" for a symlink, the separator for a directory, nothing for
\* a regular file.
classify(e) ==
    IF e.kind = "linkdir" THEN <<64>>
    ELSE IF e.kind = "dir" THEN <<Separator>>
    ELSE <<>>

\* names[i]: the name with its classification suffix.
DisplayNames(ents) == [i \in 1..Len(ents) |-> ents[i].name \o classify(ents[i])]

\* nameWidth after "nameWidth += 1": the longest bare name, plus one.
nameWidth(ents) == SetMax({Len(ents[i].name) : i \in 1..Len(ents)}) + 1

colTabs(ents) == nameWidth(ents) \div tabWidth + 1

colsMutNoCap(ents, w) == Max(w \div (colTabs(ents) * tabWidth), 1)

\* cols := min(max(opt.termWidth/(colTabs*tabWidth), 1), entryCount).
cols(ents, w) ==
    Min(Max(w \div (colTabs(ents) * tabWidth), 1), Len(ents))

\* rows := (entryCount + cols - 1) / cols.
rows(ents, w) == (Len(ents) + cols(ents, w) - 1) \div cols(ents, w)

CellIndexMutRowMajor(c, r, nrows, ncols) == r * ncols + c

\* i := c*rows + r.
CellIndex(c, r, nrows, ncols) == c * nrows + r

CellTabsMutOne(ct, s) == 1

\* tabs := max(colTabs-len(s)/tabWidth, 1).
CellTabs(ct, s) == Max(ct - Len(s) \div tabWidth, 1)

LastInRowMutLastColumn(c, i, nrows, ncols, n) == c = ncols - 1

\* if c == cols-1 || i+rows >= entryCount { continue }: no padding after
\* this cell.
LastInRow(c, i, nrows, ncols, n) == c = ncols - 1 \/ i + nrows >= n

\* The inner loop "for c := range cols" of row r, from column c on: the
\* cells printed, each with the index of its entry, its text and the number
\* of tabs that follow it.
RECURSIVE GridRowFrom(_, _, _, _)
GridRowFrom(ents, w, r, c) ==
    IF c >= cols(ents, w) THEN <<>>
    ELSE LET i == CellIndex(c, r, rows(ents, w), cols(ents, w))
         IN IF i >= Len(ents) THEN <<>>
            ELSE LET s == DisplayNames(ents)[i + 1]
                     last == LastInRow(c, i, rows(ents, w), cols(ents, w), Len(ents))
                     tabs == IF last THEN 0
                             ELSE CellTabs(colTabs(ents), s)
                 IN <<[idx |-> i, s |-> s, tabs |-> tabs]>>
                    \o GridRowFrom(ents, w, r, c + 1)

MaxNames == 5

\* A buffer of n bytes c.
Rep(c, n) == [i \in 1..n |-> c]

\* Entries to print: "a", the directory "bbbbbbb", "ccccccccc".
PrintPool ==
    { Entry(Rep(97, 1), "file", 1, 1, <<>>),
      Entry(Rep(98, 7), "dir", 1, 1, <<>>),
      Entry(Rep(99, 9), "file", 1, 1, <<>>) }

PrintInputs == UNION {[1..n -> PrintPool] : n \in 1..MaxNames}

\* Line widths of the terminal.
Widths == {1, 16, 24, 32, 40, 47, 80}

PrintInit ==
    /\ opt = DefaultOptions
    /\ SortIdle
    /\ ParseIdle
    /\ MainIdle
    /\ RootIdle
    /\ pEnts \in PrintInputs
    /\ pWidth \in Widths
    /\ pOut = <<>>
    /\ pPc = "start"

\* printShort up to "if cols == 1".
PrintShortStart ==
    /\ pPc = "start"
    /\ pPc' = IF cols(pEnts, pWidth) = 1 THEN "lines" ELSE "grid"
    /\ UNCHANGED <<opt, sortVars, parseVars, mainVars, rootVars, pEnts, pWidth, pOut>>

\* One round of "for _, n := range names { fmt.Println(n) }".
PrintLine ==
    /\ pPc = "lines"
    /\ LET k == Len(pOut) + 1
       IN /\ pOut' = Append(pOut, <<[idx |-> k - 1, s |-> DisplayNames(pEnts)[k],
                                     tabs |-> 0]>>)
          /\ pPc' = IF k = Len(pEnts) THEN "done" ELSE "lines"
    /\ UNCHANGED <<opt, sortVars, parseVars, mainVars, rootVars, pEnts, pWidth>>

\* One round of "for r := range rows": the cells of row r and the newline.
PrintRow ==
    /\ pPc = "grid"
    /\ LET r == Len(pOut)
       IN /\ pOut' = Append(pOut, GridRowFrom(pEnts, pWidth, r, 0))
          /\ pPc' = IF r + 1 = rows(pEnts, pWidth) THEN "done" ELSE "grid"
    /\ UNCHANGED <<opt, sortVars, parseVars, mainVars, rootVars, pEnts, pWidth>>

PrintNext == PrintShortStart \/ PrintLine \/ PrintRow

PrintSpec == PrintInit /\ [][PrintNext]_vars

----------------------------------------------------------------------------
(* printShort: properties of the grid *)

\* The least q with q * d >= n.
CeilDiv(n, d) == CHOOSE q \in 0..n : q * d >= n /\ (q - 1) * d < n

\* The cells printed so far, as <<line, position>>, both from 0.
Cells == {<<r, c>> \in (0..Len(pOut) - 1) \X (0..MaxNames) : c < Len(pOut[r + 1])}

\* C12: for a non-empty list and a positive width the column count lies
\* between 1 and the number of entries, and no printed row has more
\* populated cells than that.
C12_ColumnBounds ==
    pPc # "idle" =>
        /\ 1 <= cols(pEnts, pWidth)
        /\ cols(pEnts, pWidth) <= Len(pEnts)
        /\ \A r \in 1..Len(pOut) :
              Len(pOut[r]) >= 1 /\ Len(pOut[r]) <= cols(pEnts, pWidth)

\* C12 witness: five entries in four columns were printed as a row of three
\* cells and a row of two.
C12_Witness ==
    /\ pPc = "done"
    /\ Len(pEnts) = 5 /\ cols(pEnts, pWidth) = 4
    /\ Len(pOut) = 2
    /\ Len(pOut[1]) = 3 /\ Len(pOut[2]) = 2

\* C13: in the multi-column branch, with rows = ceil(count / columns), the
\* cell at row r, column c shows entry c * rows + r (so entry i stands at
\* row i mod rows, column i div rows), and when printShort returns every
\* entry has been printed exactly once.
C13_ColumnMajor ==
    (pPc \in {"grid", "done"} /\ cols(pEnts, pWidth) > 1) =>
        LET nrows == CeilDiv(Len(pEnts), cols(pEnts, pWidth))
        IN /\ Len(pOut) <= nrows
           /\ \A rc \in Cells :
                LET i == pOut[rc[1] + 1][rc[2] + 1].idx
                IN /\ i \in 0..Len(pEnts) - 1
                   /\ i % nrows = rc[1]
                   /\ i \div nrows = rc[2]
                   /\ pOut[rc[1] + 1][rc[2] + 1].s = DisplayNames(pEnts)[i + 1]
           /\ pPc = "done" =>
                \A i \in 0..Len(pEnts) - 1 :
                    Cardinality({rc \in Cells : pOut[rc[1] + 1][rc[2] + 1].idx = i}) = 1

\* C13 witness: five entries in two columns and three rows; entry 1 stands
\* below entry 0, entry 3 to the right of entry 0.
C13_Witness ==
    /\ pPc = "done"
    /\ Len(pEnts) = 5 /\ cols(pEnts, pWidth) = 2
    /\ Len(pOut) = 3
    /\ pOut[1][1].idx = 0 /\ pOut[2][1].idx = 1 /\ pOut[1][2].idx = 3

----------------------------------------------------------------------------
(* gitRoot: the walk to the repository root *)

\* ".git".
DotGit == <<46, 103, 105, 116>>

\* os.Stat(p) succeeds: p is the ".git" of a marked directory.
StatOk(marked, p) == p \in {Join(d, DotGit) : d \in marked}

RootStartMutParent(dir) == Dir(dir)

\* root := dir.
RootStart(dir) == dir

\* The absolute paths gitRoot is called with: "/", "/r", "/r/a", "/r/a/X",
\* "/r/B", "/n", "/n/m".
RootDirs ==
    { <<47>>, <<47, 114>>, <<47, 114, 47, 97>>, <<47, 114, 47, 97, 47, 88>>,
      <<47, 114, 47, 66>>, <<47, 110>>, <<47, 110, 47, 109>> }

\* The directories that may hold a ".git": "/", "/r", "/r/a", "/n".
RootMarks == { <<47>>, <<47, 114>>, <<47, 114, 47, 97>>, <<47, 110>> }

RootInit ==
    /\ opt = DefaultOptions
    /\ SortIdle
    /\ ParseIdle
    /\ MainIdle
    /\ PrintIdle
    /\ rDir \in RootDirs
    /\ rMarked \in SUBSET RootMarks
    /\ rRoot = RootStart(rDir)
    /\ rPc = "walk"

\* os.Stat(filepath.Join(root, ".git")) succeeds: return root.
RootFound ==
    /\ rPc = "walk"
    /\ StatOk(rMarked, Join(rRoot, DotGit))
    /\ rPc' = "found"
    /\ UNCHANGED <<opt, sortVars, parseVars, mainVars, printVars, rDir, rMarked, rRoot>>

\* parent == root: return "".
RootNone ==
    /\ rPc = "walk"
    /\ ~StatOk(rMarked, Join(rRoot, DotGit))
    /\ Dir(rRoot) = rRoot
    /\ rPc' = "none"
    /\ UNCHANGED <<opt, sortVars, parseVars, mainVars, printVars, rDir, rMarked, rRoot>>

\* root = parent.
RootUp ==
    /\ rPc = "walk"
    /\ ~StatOk(rMarked, Join(rRoot, DotGit))
    /\ Dir(rRoot) # rRoot
    /\ rRoot' = Dir(rRoot)
    /\ UNCHANGED <<opt, sortVars, parseVars, mainVars, printVars, rDir, rMarked, rPc>>

RootNext == RootFound \/ RootNone \/ RootUp

\* The loop of gitRoot keeps running until it returns.
RootSpec == RootInit /\ [][RootNext]_vars /\ WF_vars(RootNext)

\* The chain dir, parent(dir), ... up to "/".
Chain(dir) == {d \in {SubSeq(dir, 1, k) : k \in 1..Len(dir)} : AtOrAbove(d, dir)}

\* C16: gitRoot returns the nearest directory of the chain dir, parent(dir),
\* ... that holds the marker, dir itself included; it returns "none" only
\* when no directory of the chain holds it; and it returns for every path.
C16_GitRoot ==
    /\ [](rPc = "found" =>
            /\ rRoot \in Chain(rDir) \cap rMarked
            /\ \A d \in Chain(rDir) \cap rMarked : Len(d) <= Len(rRoot))
    /\ [](rPc = "none" => Chain(rDir) \cap rMarked = {})
    /\ <>(rPc \in {"found", "none"})

\* C16 witness: from "/r/a/X", with the marker in "/" and in "/r", the walk
\* went up two levels and returned "/r".
C16_Witness ==
    /\ rPc = "found"
    /\ rDir = <<47, 114, 47, 97, 47, 88>>
    /\ rMarked = { <<47>>, <<47, 114>> }
    /\ rRoot = <<47, 114>>

\* ---------------------------------------------------------------------------
\* gitRepos as a write-once cache
\* ---------------------------------------------------------------------------

\* C21: the cache is write-once per key and only grows: in every step, every
\* root that has an entry in gitRepos still has it afterwards, with the same
\* value.
C21_WriteOnce ==
    [][\A r \in DOMAIN gitRepos :
          r \in DOMAIN gitRepos' /\ gitRepos'[r] = gitRepos[r]]_vars

\* ---------------------------------------------------------------------------
\* The order of the steps of a directory task
\* ---------------------------------------------------------------------------

\* The entries of task i in the order the directory was read: "." and ".."
\* first with the all option, no hidden entry without it.
ReadOrder(i) ==
    Names(IF opt.all
          THEN selfAndParent(dirs[i].path) \o ReadDir(dirs[i].path)
          ELSE DeleteHidden(ReadDir(dirs[i].path)))

\* The status entry e of task i carries once the attachment has run: none
\* when no status map was obtained, else the code stored for its path with
\* spaces dashed, or the placeholder.
StatusDue(i, e) ==
    IF tstats[i].nil THEN <<>>
    ELSE IF e.path \in DOMAIN tstats[i].map
    THEN Dashed(tstats[i].map[e.path])
    ELSE <<45, 45>>

NoStatusYet(s) == \A k \in 1..Len(s) : s[k].gitStatus = <<>>

StatusSet(i, s) == \A k \in 1..Len(s) : s[k].gitStatus = StatusDue(i, s[k])

BeforeAttach == {"lock1", "check", "query", "lock2", "store", "attach"}

\* C22: a task reads, filters or injects, attaches, sorts and writes its
\* slot in that order: before the read nothing is there; up to the
\* attachment the entries stand in read order without a status; before the
\* sort they stand in read order with their status, "." and ".." included;
\* the slot is written last and holds the same entries with the same
\* statuses in listing order.
C22_StepOrder ==
    \A i \in Tasks :
        /\ tpc[i] = "read" => tents[i] = <<>> /\ dirEntries[i] = <<>>
        /\ tpc[i] \in BeforeAttach =>
              /\ Names(tents[i]) = ReadOrder(i)
              /\ NoStatusYet(tents[i])
              /\ dirEntries[i] = <<>>
        /\ tpc[i] = "sort" =>
              /\ Names(tents[i]) = ReadOrder(i)
              /\ StatusSet(i, tents[i])
              /\ dirEntries[i] = <<>>
        /\ (tpc[i] = "done" /\ i \notin errs) =>
              /\ dirEntries[i] = tents[i]
              /\ Range(Names(tents[i])) = Range(ReadOrder(i))
              /\ Len(tents[i]) = Len(ReadOrder(i))
              /\ StatusSet(i, tents[i])
              /\ InListingOrder(opt, tents[i])

\* C22 witness: "/r/a" was listed with every entry, sorted by status in
\* reverse: "y" with "??", then ".h", ".." and "." with "-M", then the
\* unmodified "X" with the placeholder.
C22_Witness ==
    /\ opt.all /\ opt.sort = "git" /\ opt.reverse /\ ~opt.dirsFirst
    /\ \E i \in Tasks :
        /\ tpc[i] = "done"
        /\ Names(dirEntries[i]) = << <<121>>, <<46, 104>>, <<46, 46>>, <<46>>, <<88>> >>
        /\ dirEntries[i][1].gitStatus = <<63, 63>>
        /\ dirEntries[i][3].gitStatus = <<45, 77>>
        /\ dirEntries[i][4].gitStatus = <<45, 77>>
        /\ dirEntries[i][5].gitStatus = <<45, 45>>

\* ---------------------------------------------------------------------------
\* Status overlay: records that are not status records
\* ---------------------------------------------------------------------------

\* A rename or copy entry: "R" or "C" in its code; with -z the original
\* path follows it as a record of its own.
IsRename(rec) ==
    /\ WellFormed(rec)
    /\ rec[1] \in {82, 67} \/ rec[2] \in {82, 67}

\* Record k of recs is the original path of the rename entry before it.
RECURSIVE OrigPath(_, _)
OrigPath(recs, k) ==
    /\ k > 1
    /\ ~OrigPath(recs, k - 1)
    /\ IsRename(recs[k - 1])

\* C23: the iteration over a record that is not a status record (too short,
\* no space after the code, or the original path of a rename) leaves the
\* status map as it was and moves on to the next record.
C23_NonRecordsSkipped ==
    [][LET recs == Records(gOut)
           k == gIdx + 1
       IN (k <= Len(recs) /\ (~WellFormed(recs[k]) \/ OrigPath(recs, k)))
             => (gStats' = gStats /\ gIdx' = k)]_vars

\* ---------------------------------------------------------------------------
\* Status overlay: records of equal rank
\* ---------------------------------------------------------------------------

SetMin(S) == CHOOSE x \in S : \A y \in S : x <= y

\* The first consumed record among those of the highest rank that map to p.
FirstOfTopRank(p) ==
    LET top == SetMax({Rank(CodeOf(k)) : k \in MapsTo(p)})
    IN SetMin({k \in MapsTo(p) : Rank(CodeOf(k)) = top})

\* C24: a record of the rank already stored for a path leaves the stored
\* code as it is: every path holds the code of the first record processed
\* among the records of the highest rank that map to it, however often that
\* record or others of its rank follow.
C24_FirstOfEqualRankKept ==
    \A p \in DOMAIN gStats :
        MapsTo(p) # {} => gStats[p] = CodeOf(FirstOfTopRank(p))

\* C24 witness: under /r, " M a/b", then "M  c/d/e" of the same rank, then
\* " M a/b" again: the root and a/b still hold " M".
C24_Witness ==
    /\ gRoot = <<47, 114>>
    /\ gIdx = 3
    /\ gSeen[1] = <<32, 77, 32, 97, 47, 98>>
    /\ gSeen[2] = <<77, 32, 32, 99, 47, 100, 47, 101>>
    /\ gSeen[3] = <<32, 77, 32, 97, 47, 98>>
    /\ gStats[<<47, 114>>] = <<32, 77>>
    /\ gStats[<<47, 114, 47, 97, 47, 98>>] = <<32, 77>>

\* ---------------------------------------------------------------------------
\* The status column of a batch
\* ---------------------------------------------------------------------------

\* A status as printLong shows it: two characters, none of them a space.
TwoChars(g) == Len(g) = 2 /\ g[1] # Space /\ g[2] # Space

\* Every entry without a status, or every entry with a two-character one.
UniformBatch(s) ==
    \/ \A k \in 1..Len(s) : s[k].gitStatus = <<>>
    \/ \A k \in 1..Len(s) : TwoChars(s[k].gitStatus)

\* C25: with the long format, the batch of the file arguments and the batch
\* of every directory section are uniform, so that the width of the first
\* entry's status is the width of every entry's status.
C25_UniformBatches ==
    opt.long =>
        /\ pc # "start" => UniformBatch(files)
        /\ \A i \in Tasks : tpc[i] = "done" => UniformBatch(dirEntries[i])
        /\ \A k \in 1..Len(printed) :
              /\ UniformBatch(printed[k].ents)
              /\ \A j \in 1..Len(printed[k].ents) :
                    Len(printed[k].ents[j].gitStatus) =
                        Len(printed[k].ents[1].gitStatus)

\* C25 witness: the file arguments "/r/a/y" and "/r/B/k" were listed in the
\* long format with statuses: "y" shows "??", "k", which git did not report,
\* shows the placeholder.
C25_Witness ==
    /\ opt.long /\ opt.git
    /\ pc = "done"
    /\ Len(files) = 2
    /\ \E a \in 1..2 : \E b \in 1..2 :
        /\ files[a].name = <<47, 114, 47, 97, 47, 121>>
        /\ files[a].gitStatus = <<63, 63>>
        /\ files[b].name = <<47, 114, 47, 66, 47, 107>>
        /\ files[b].gitStatus = <<45, 45>>

\* ---------------------------------------------------------------------------
\* Sort engine: reverse
\* ---------------------------------------------------------------------------

Reversed(s) == [i \in 1..Len(s) |-> s[Len(s) + 1 - i]]

\* No two entries of s have the same case-folded name.
DistinctFolded(s) ==
    \A i \in 1..Len(s) : \A j \in 1..Len(s) :
        ToLower(s[i].name) = ToLower(s[j].name) => i = j

\* C26: for a list of pairwise distinct case-folded names, dirsFirst off,
\* what sortEntries leaves is the reversed sequence of what it leaves for
\* the same list under the opposite setting of reverse, for every key.
C26_ReverseIsReversal ==
    (sPc = "done" /\ ~opt.dirsFirst /\ DistinctFolded(sIn)) =>
        \A r \in SortEntries(sIn, [opt EXCEPT !.reverse = ~opt.reverse]) :
            sOut = Reversed(r)

\* C26 witness: "a" and "B.x" of time 1 and "c" of time 2, by time in
\* reverse: "c", then the two of equal time by name descending, "B.x", "a".
C26_Witness ==
    /\ sPc = "done" /\ opt.sort = "mtime" /\ opt.reverse /\ ~opt.dirsFirst
    /\ Names(sIn) = << <<97>>, <<66, 46, 120>>, <<99>> >>
    /\ Names(sOut) = << <<99>>, <<66, 46, 120>>, <<97>> >>
    /\ sOut[2].mtime = sOut[3].mtime

\* ---------------------------------------------------------------------------
\* printShort: padding
\* ---------------------------------------------------------------------------

\* C27: in grid output the last cell printed in a row, and so every cell of
\* the last column, is followed by the newline with no tab between, and
\* every other cell is followed by at least one tab.
C27_NoTrailingPadding ==
    (pPc \in {"grid", "done"} /\ cols(pEnts, pWidth) > 1) =>
        \A r \in 1..Len(pOut) : \A c \in 1..Len(pOut[r]) :
            /\ c = Len(pOut[r]) => pOut[r][c].tabs = 0
            /\ c = cols(pEnts, pWidth) => pOut[r][c].tabs = 0
            /\ c < Len(pOut[r]) => pOut[r][c].tabs >= 1

\* C27 witness: five entries in four columns; the first row ends at its
\* third cell and the second at its second, neither in the last column,
\* both without padding; the cells before them are padded.
C27_Witness ==
    /\ pPc = "done"
    /\ Len(pEnts) = 5 /\ cols(pEnts, pWidth) = 4
    /\ Len(pOut) = 2
    /\ Len(pOut[1]) = 3 /\ pOut[1][3].tabs = 0 /\ pOut[1][2].tabs >= 1
    /\ Len(pOut[2]) = 2 /\ pOut[2][2].tabs = 0 /\ pOut[2][1].tabs >= 1

\* ---------------------------------------------------------------------------
\* printShort: alignment
\* ---------------------------------------------------------------------------

\* The column a terminal with tab stops every tabWidth columns is at after
\* t tabs from column pos.
RECURSIVE TabExpand(_, _)
TabExpand(pos, t) ==
    IF t = 0 THEN pos
    ELSE TabExpand((pos \div tabWidth + 1) * tabWidth, t - 1)

\* The column at which cell c (from 1) of a printed row starts.
RECURSIVE StartOf(_, _)
StartOf(row, c) ==
    IF c = 1 THEN 0
    ELSE TabExpand(StartOf(row, c - 1) + Len(row[c - 1].s), row[c - 1].tabs)

\* The column width W.
ColWidth == colTabs(pEnts) * tabWidth

\* C28: in the multi-column branch W = colTabs x tabWidth is greater than
\* the length of every displayed name, the cell of column c starts at column
\* c x W once tabs are expanded, columns x W is at most the line width, and
\* no printed row is wider than the line.
C28_Alignment ==
    (pPc \in {"grid", "done"} /\ cols(pEnts, pWidth) > 1) =>
        /\ \A i \in 1..Len(pEnts) : Len(DisplayNames(pEnts)[i]) < ColWidth
        /\ cols(pEnts, pWidth) * ColWidth <= pWidth
        /\ \A r \in 1..Len(pOut) :
              /\ \A c \in 1..Len(pOut[r]) : StartOf(pOut[r], c) = (c - 1) * ColWidth
              /\ StartOf(pOut[r], Len(pOut[r])) + Len(pOut[r][Len(pOut[r])].s) <= pWidth

\* C28 witness: "a", "bbbbbbb/" and "ccccccccc" in one row of a line of 80
\* columns with W = 16: "a" is followed by two tabs, "bbbbbbb/" by one, and
\* the cells start at columns 0, 16 and 32.
C28_Witness ==
    /\ pPc = "done"
    /\ pWidth = 80
    /\ Len(pOut) = 1 /\ Len(pOut[1]) = 3
    /\ ColWidth = 16
    /\ pOut[1][1].s = <<97>> /\ pOut[1][1].tabs = 2
    /\ pOut[1][2].s = Rep(98, 7) \o <<47>> /\ pOut[1][2].tabs = 1
    /\ StartOf(pOut[1], 3) = 32

\* ---------------------------------------------------------------------------
\* Status overlay: the keys of a status map
\* ---------------------------------------------------------------------------

\* C30: every key of the status map built for root R is R or a path below
\* R; once a well-formed record was processed R itself is a key, so the walk
\* of every record ended at R, and every record consumed so far was
\* processed to its end.
C30_KeysWithinRoot ==
    gRoot # <<>> =>
        /\ \A p \in DOMAIN gStats : AtOrAbove(gRoot, p)
        /\ Consumed # {} => gRoot \in DOMAIN gStats
        /\ gIdx = Len(gSeen)
        /\ gIdx <= Len(Records(gOut))

\* C30 witness: under /r the record "M  c/d/e" was processed: the keys are
\* c/d/e, c/d, c and /r, and "/" is none.
C30_Witness ==
    /\ gRoot = <<47, 114>>
    /\ gIdx = 1
    /\ gSeen[1] = <<77, 32, 32, 99, 47, 100, 47, 101>>
    /\ DOMAIN gStats = { <<47, 114, 47, 99, 47, 100, 47, 101>>,
                         <<47, 114, 47, 99, 47, 100>>,
                         <<47, 114, 47, 99>>,
                         <<47, 114>> }

\* ---------------------------------------------------------------------------
\* Progress of the tasks
\* ---------------------------------------------------------------------------

\* The steps of the tasks and of main once the tasks are launched.
Running ==
    \/ \E i \in Tasks : TaskRead(i)
    \/ \E i \in Tasks : TaskLock1(i)
    \/ \E i \in Tasks : TaskCheck(i)
    \/ \E i \in Tasks : TaskQuery(i)
    \/ \E i \in Tasks : TaskLock2(i)
    \/ \E i \in Tasks : TaskStore(i)
    \/ \E i \in Tasks : TaskAttach(i)
    \/ \E i \in Tasks : TaskSort(i)
    \/ MainWait
    \/ MainPrint

\* The sort options play no part in the progress of the tasks and are left
\* at their defaults.
FairOptions ==
    {o \in MainOptions : o.sort = "name" /\ ~o.reverse /\ ~o.dirsFirst}

FairInit == Init /\ opt \in FairOptions

\* The run with a scheduler that lets some step of a task or of main happen
\* as long as one can: the Go runtime runs every goroutine that is able to
\* run, and every filesystem call and status query returns.
FairSpec == FairInit /\ [][Next]_vars /\ WF_vars(Running)

\* C29: the task that holds the cache mutex is at the step that ends with
\* its release, and no task waits for the mutex while holding it; once the
\* tasks are launched, the run reaches the point where every task has
\* finished, the join has returned and a section has been printed for every
\* directory.
C29_Progress ==
    /\ [](\A i \in Tasks :
            /\ gitReposMu = i => tpc[i] \in {"check", "store"}
            /\ tpc[i] \in {"lock1", "lock2"} => gitReposMu # i)
    /\ (pc = "wait") ~> (/\ pc = "done"
                         /\ \A i \in Tasks : tpc[i] = "done"
                         /\ Len(printed) = Len(dirs))

\* C29 witness: one task holds the mutex for its cache lookup while another
\* waits to lock it for its store.
C29_Witness ==
    \E i \in Tasks : \E j \in Tasks :
        /\ tpc[i] = "check" /\ gitReposMu = i
        /\ tpc[j] = "lock2"

====
